---- MODULE Spec2Model ----
(***************************************************************************)
(* Model of shuf.py: external shuffle of a line-oriented file.             *)
(*   split_into_chunks -> random.shuffle(chunk_files) -> merge_chunks,     *)
(* run by shuffle_large_file inside a TemporaryDirectory, next to the      *)
(* show_status daemon thread.  Files are sequences of characters; a line   *)
(* is the sequence of characters Python's text layer hands out for it.     *)
(***************************************************************************)
EXTENDS Integers, Sequences, FiniteSets, Bags, TLC

\* ---------------------------------------------------------------- bounds
MaxLen == 4          \* characters in the input file
MaxChunk == 3        \* largest chunk_size tried

\* ------------------------------------------------------------ text layer
\* the inputs tried are made of an ordinary character and the line
\* terminator; none holds a "\r", which the text layer would translate
NL == "\n"
Chars == {"a", NL}

\* all character sequences of length <= n
SeqsUpTo(n) == UNION {[1..k -> Chars] : k \in 0..n}

\* cut a character sequence after every "\n"; a last piece without one is
\* a line of its own
RECURSIVE SplitFrom(_, _)
SplitFrom(s, cur) ==
    IF s = <<>> THEN (IF cur = <<>> THEN <<>> ELSE <<cur>>)
    ELSE IF Head(s) = NL
         THEN <<Append(cur, NL)>> \o SplitFrom(Tail(s), <<>>)
         ELSE SplitFrom(Tail(s), Append(cur, Head(s)))

\* the lines a text-mode file yields: `for line in f`, `infile.readlines()`
ReadLines(content) == SplitFrom(content, <<>>)

\* file.writelines(lines): the lines one after another, nothing added
\* ("\n" is written as os.linesep, which is "\n" here)
RECURSIVE WriteLines(_)
WriteLines(ls) == IF ls = <<>> THEN <<>> ELSE Head(ls) \o WriteLines(Tail(ls))

\* ----------------------------------------------------------- randomness
\* a shuffle that draws every position afresh (random.choices): elements
\* may repeat and others go missing
ShufflesWithReplacement(x) ==
    LET n == Len(x) IN [1..n -> {x[k] : k \in 1..n}]

\* random.shuffle(x): x becomes any arrangement of its elements
Shuffles(x) ==
    LET n == Len(x)
        P == {p \in [1..n -> 1..n] : \A a, b \in 1..n : p[a] = p[b] => a = b}
    IN  {[k \in 1..n |-> x[p[k]]] : p \in P}

\* list.pop(): drops the last element, whatever was selected
RemoveLast(l, v) == SubSeq(l, 1, Len(l) - 1)

\* list.remove(v): the list without its first element equal to v
RemoveFirst(l, v) ==
    LET k == CHOOSE j \in 1..Len(l) :
                 l[j] = v /\ \A m \in 1..(j - 1) : l[m] # v
    IN  SubSeq(l, 1, k - 1) \o SubSeq(l, k + 1, Len(l))

\* ---------------------------------------------------------------- state
VARIABLES
    input_exists,   \* does input_file name an existing file
    input,          \* its content
    chunk_size,     \* the chunk_size argument
    lines,          \* the lines the open input file f yields
    out_pre,        \* the output file before the run: [exists, content]
    outfile,        \* the output file now:            [exists, content]
    pc,             \* position of the main thread
    temp_dir,       \* "none", "acquired", "released"
    files,          \* temporary storage: handle -> content of chunk_<handle>.txt
    i,              \* input lines consumed by the split loop
    chunk,          \* the Chunker's buffer
    chunk_files,    \* the registry: list of chunk handles
    is_running,     \* is_running[0]
    t_pc,           \* position of the status thread
    status_list,    \* the list object handed to show_status
    reports,        \* what the last status report printed / what was true
    message,        \* what the run told the user
    status,         \* exit status, -1 while none
    exc,            \* the exception in flight, "none" when there is none
    persisted,      \* history: handle -> the lines the Chunker wrote, in order
    written,        \* history: handles merge_chunks copied to the output
    out_lines       \* history: the lines merge_chunks passed to outfile.writelines

vars == <<input_exists, input, chunk_size, lines, out_pre, outfile, pc, temp_dir,
          files, i, chunk, chunk_files, is_running, t_pc, status_list,
          reports, message, status, exc, persisted, written, out_lines>>

Empty == [h \in {} |-> <<>>]
Absent == [exists |-> FALSE, content |-> <<>>]
OldOutput == [exists |-> TRUE, content |-> <<"x", NL>>]
NoReport == [printed |-> -1, registry |-> -1]

Init ==
    /\ input_exists \in BOOLEAN
    /\ input \in SeqsUpTo(MaxLen)
    /\ input_exists = FALSE => input = <<>>
    /\ chunk_size \in 1..MaxChunk
    /\ lines = <<>>
    /\ out_pre \in {Absent, OldOutput}
    /\ outfile = out_pre
    /\ pc = "start"
    /\ temp_dir = "none"
    /\ files = Empty
    /\ i = 0
    /\ chunk = <<>>
    /\ chunk_files = <<>>
    /\ is_running = FALSE
    /\ t_pc = "none"
    /\ status_list = <<>>
    /\ reports = NoReport
    /\ message = "none"
    /\ status = -1
    /\ exc = "none"
    /\ persisted = Empty
    /\ written = <<>>
    /\ out_lines = <<>>

\* ------------------------------------------------------ shuffle_large_file
\* TemporaryDirectory.__exit__: the directory and all it holds are removed
Release ==
    /\ temp_dir' = "released"
    /\ files' = Empty

\* with TemporaryDirectory() as temp_dir; is_running = [True];
\* Thread(target=show_status, args=([], is_running)).start()
Enter ==
    /\ pc = "start"
    /\ temp_dir' = "acquired"
    /\ is_running' = TRUE
    /\ status_list' = <<>>
    /\ t_pc' = "check"
    /\ pc' = "open_input"
    /\ UNCHANGED <<input_exists, input, chunk_size, lines, out_pre, outfile,
                   files, i, chunk, chunk_files, reports, message, status,
                   exc, persisted, written, out_lines>>

\* an exception leaves the try block: nothing else changes until it is handled
Raise(kind) ==
    /\ exc' = kind
    /\ pc' = "raised"

\* `except Exception` placed first: every failure gets the general message
HandlerGeneric(kind) == "error"

\* the message the except clauses print for an exception
Handler(kind) ==
    IF kind = "FileNotFoundError" THEN "missing_input" ELSE "error"

\* the handler leaving by os._exit(1): the with block is never left and the
\* temporary directory stays
ExceptWithoutCleanup ==
    /\ pc = "raised"
    /\ message' = Handler(exc)
    /\ status' = 1
    /\ is_running' = FALSE
    /\ pc' = "finished"
    /\ UNCHANGED <<input_exists, input, chunk_size, lines, out_pre, outfile,
                   temp_dir, files, i, chunk, chunk_files, t_pc, status_list,
                   reports, exc, persisted, written, out_lines>>

\* except ...: print, sys.exit(1); finally: is_running[0] = False; the with
\* block is left and the temporary directory removed
Except ==
    /\ pc = "raised"
    /\ message' = Handler(exc)
    /\ status' = 1
    /\ is_running' = FALSE
    /\ Release
    /\ pc' = "finished"
    /\ UNCHANGED <<input_exists, input, chunk_size, lines, out_pre, outfile,
                   i, chunk, chunk_files, t_pc, status_list, reports, exc,
                   persisted, written, out_lines>>

\* ------------------------------------------------------ split_into_chunks
\* with open(input_file, 'r') as f
OpenInput ==
    /\ pc = "open_input"
    /\ input_exists
    /\ lines' = ReadLines(input)
    /\ chunk_files' = <<>>
    /\ chunk' = <<>>
    /\ i' = 0
    /\ pc' = "split"
    /\ UNCHANGED <<input_exists, input, chunk_size, out_pre, outfile,
                   temp_dir, files, is_running, t_pc, status_list, reports,
                   message, status, exc, persisted, written, out_lines>>

\* open fails: the path does not exist, or it exists and cannot be read
OpenInputFail ==
    /\ pc = "open_input"
    /\ \E kind \in {"FileNotFoundError", "OSError"} :
          /\ (kind = "FileNotFoundError") <=> ~input_exists
          /\ Raise(kind)
    /\ UNCHANGED <<input_exists, input, chunk_size, lines, out_pre, outfile,
                   temp_dir, files, i, chunk, chunk_files, is_running, t_pc,
                   status_list, reports, message, status, persisted, written,
                   out_lines>>

\* the test written with i instead of i + 1
FullOffByOne(n, c) == n % c = 0

\* `if (i + 1) % chunk_size == 0`: line i (counted from 0) fills the buffer
Full(n, c) == (n + 1) % c = 0

\* the handle registered inside the `with`, before the file is closed: the
\* last line is still in the write buffer
PersistUnflushed(sh) ==
    LET h == Len(chunk_files) IN
    /\ files' = [x \in DOMAIN files \cup {h} |->
                    IF x = h THEN WriteLines(SubSeq(sh, 1, Len(sh) - 1))
                             ELSE files[x]]
    /\ persisted' = [x \in DOMAIN persisted \cup {h} |->
                    IF x = h THEN sh ELSE persisted[x]]
    /\ chunk_files' = Append(chunk_files, h)

\* chunk_<len(chunk_files)>.txt is written with the buffer and then registered
Persist(sh) ==
    LET h == Len(chunk_files) IN
    /\ files' = [x \in DOMAIN files \cup {h} |->
                    IF x = h THEN WriteLines(sh) ELSE files[x]]
    /\ persisted' = [x \in DOMAIN persisted \cup {h} |->
                    IF x = h THEN sh ELSE persisted[x]]
    /\ chunk_files' = Append(chunk_files, h)

\* one turn of `for i, line in enumerate(f)`
SplitStep ==
    /\ pc = "split"
    /\ i < Len(lines)
    /\ LET buf == Append(chunk, lines[i + 1]) IN
       IF Full(i, chunk_size)
       THEN \E sh \in Shuffles(buf) :
               /\ Persist(sh)
               /\ chunk' = <<>>
       ELSE /\ chunk' = buf
            /\ UNCHANGED <<files, persisted, chunk_files>>
    /\ i' = i + 1
    /\ UNCHANGED <<input_exists, input, chunk_size, lines, out_pre, outfile,
                   pc, temp_dir, is_running, t_pc, status_list, reports,
                   message, status, exc, written, out_lines>>

\* the input is exhausted: `if chunk:` writes the last, partial chunk; the
\* buffer is not reset there
SplitTail ==
    /\ pc = "split"
    /\ i = Len(lines)
    /\ IF chunk # <<>>
       THEN \E sh \in Shuffles(chunk) :
               /\ Persist(sh)
               /\ chunk' = sh
       ELSE UNCHANGED <<files, persisted, chunk_files, chunk>>
    /\ pc' = "shuffle_list"
    /\ UNCHANGED <<input_exists, input, chunk_size, lines, out_pre, outfile,
                   temp_dir, i, is_running, t_pc, status_list, reports,
                   message, status, exc, written, out_lines>>

\* writing a chunk file fails part-way: the file holds a proper prefix of the
\* chunk and its handle is never registered
SplitWriteFail ==
    /\ pc = "split"
    /\ LET buf == IF i < Len(lines) THEN Append(chunk, lines[i + 1]) ELSE chunk
           due == IF i < Len(lines) THEN Full(i, chunk_size)
                                   ELSE chunk # <<>>
           h   == Len(chunk_files)
       IN  /\ due
           /\ \E sh \in Shuffles(buf) :
              \E n \in 0..(Len(WriteLines(sh)) - 1) :
                 /\ files' = [x \in DOMAIN files \cup {h} |->
                                 IF x = h THEN SubSeq(WriteLines(sh), 1, n)
                                          ELSE files[x]]
                 /\ chunk' = sh
    /\ Raise("OSError")
    /\ UNCHANGED <<input_exists, input, chunk_size, lines, out_pre, outfile,
                   temp_dir, i, chunk_files, is_running, t_pc, status_list,
                   reports, message, status, persisted, written, out_lines>>

\* return chunk_files; random.shuffle(chunk_files)
ShuffleList ==
    /\ pc = "shuffle_list"
    /\ chunk_files' \in Shuffles(chunk_files)
    /\ pc' = "open_output"
    /\ UNCHANGED <<input_exists, input, chunk_size, lines, out_pre, outfile,
                   temp_dir, files, i, chunk, is_running, t_pc, status_list,
                   reports, message, status, exc, persisted, written,
                   out_lines>>

\* ----------------------------------------------------------- merge_chunks
\* with open(output_file, 'w') as outfile: created, or cut to nothing
OpenOutput ==
    /\ pc = "open_output"
    /\ outfile' = [exists |-> TRUE, content |-> <<>>]
    /\ pc' = "merge"
    /\ UNCHANGED <<input_exists, input, chunk_size, lines, out_pre, temp_dir,
                   files, i, chunk, chunk_files, is_running, t_pc,
                   status_list, reports, message, status, exc, persisted,
                   written, out_lines>>

\* the output cannot be opened: its directory does not exist, or another error
OpenOutputFail ==
    /\ pc = "open_output"
    /\ \E kind \in {"FileNotFoundError", "OSError"} : Raise(kind)
    /\ UNCHANGED <<input_exists, input, chunk_size, lines, out_pre, outfile,
                   temp_dir, files, i, chunk, chunk_files, is_running, t_pc,
                   status_list, reports, message, status, persisted, written,
                   out_lines>>

\* the chunk's lines written last first
CopyReversed(content) ==
    LET rd == ReadLines(content) IN
    WriteLines([k \in 1..Len(rd) |-> rd[Len(rd) + 1 - k]])

\* outfile.writelines(infile.readlines()): what reaches the output for a
\* chunk file with this content
Copy(content) == WriteLines(ReadLines(content))

\* one turn of `while chunk_files`: random.choice, readlines, writelines,
\* remove
MergeStep ==
    /\ pc = "merge"
    /\ chunk_files # <<>>
    /\ \E k \in 1..Len(chunk_files) :
          LET selected_chunk == chunk_files[k]
              rd == ReadLines(files[selected_chunk])
          IN  /\ outfile' = [outfile EXCEPT !.content =
                                         @ \o Copy(files[selected_chunk])]
              /\ out_lines' = out_lines \o rd
              /\ written' = Append(written, selected_chunk)
              /\ chunk_files' = RemoveFirst(chunk_files, selected_chunk)
    /\ UNCHANGED <<input_exists, input, chunk_size, lines, out_pre, pc,
                   temp_dir, files, i, chunk, is_running, t_pc, status_list,
                   reports, message, status, exc, persisted>>

\* reading the selected chunk or writing it to the output fails: a proper
\* prefix of the chunk (nothing, when the read failed) reached the output and
\* the handle stays in the list
MergeFail ==
    /\ pc = "merge"
    /\ chunk_files # <<>>
    /\ \E k \in 1..Len(chunk_files) :
          LET data == Copy(files[chunk_files[k]]) IN
          \E n \in 0..(Len(data) - 1) :
             outfile' = [outfile EXCEPT !.content = @ \o SubSeq(data, 1, n)]
    /\ Raise("OSError")
    /\ UNCHANGED <<input_exists, input, chunk_size, lines, out_pre, temp_dir,
                   files, i, chunk, chunk_files, is_running, t_pc,
                   status_list, reports, message, status, persisted, written,
                   out_lines>>

\* the list is empty: the output is closed, "Finished!" is printed, the
\* finally clause runs and the temporary directory is removed
Finish ==
    /\ pc = "merge"
    /\ chunk_files = <<>>
    /\ message' = "finished"
    /\ status' = 0
    /\ is_running' = FALSE
    /\ Release
    /\ pc' = "finished"
    /\ UNCHANGED <<input_exists, input, chunk_size, lines, out_pre, outfile,
                   i, chunk, chunk_files, t_pc, status_list, reports, exc,
                   persisted, written, out_lines>>

\* the interpreter exits with the status; the daemon thread dies with it
ProcessExit ==
    /\ pc = "finished"
    /\ pc' = "exited"
    /\ t_pc' = "dead"
    /\ UNCHANGED <<input_exists, input, chunk_size, lines, out_pre, outfile,
                   temp_dir, files, i, chunk, chunk_files, is_running,
                   status_list, reports, message, status, exc, persisted,
                   written, out_lines>>

\* ------------------------------------------------------------ show_status
\* while is_running[0]:
StatusCheck ==
    /\ t_pc = "check"
    /\ t_pc' = IF is_running THEN "input" ELSE "stopped"
    /\ UNCHANGED <<input_exists, input, chunk_size, lines, out_pre, outfile,
                   pc, temp_dir, files, i, chunk, chunk_files, is_running,
                   status_list, reports, message, status, exc, persisted,
                   written, out_lines>>

\* input() returns; print(f"... {len(chunk_files)} chunks remaining."), where
\* chunk_files is the thread's own argument.  `registry` records the length
\* of the Chunker/Merger list at that moment.
StatusReport ==
    /\ t_pc = "input"
    /\ reports' = [printed |-> Len(status_list), registry |-> Len(chunk_files)]
    /\ t_pc' = "check"
    /\ UNCHANGED <<input_exists, input, chunk_size, lines, out_pre, outfile,
                   pc, temp_dir, files, i, chunk, chunk_files, is_running,
                   status_list, message, status, exc, persisted, written,
                   out_lines>>

Next ==
    \/ Enter
    \/ OpenInput
    \/ OpenInputFail
    \/ SplitStep
    \/ SplitTail
    \/ SplitWriteFail
    \/ ShuffleList
    \/ OpenOutput
    \/ OpenOutputFail
    \/ MergeStep
    \/ MergeFail
    \/ Finish
    \/ Except
    \/ ProcessExit
    \/ StatusCheck
    \/ StatusReport

Spec == Init /\ [][Next]_vars

\* ================================================================ claims
Range(s) == {s[k] : k \in 1..Len(s)}
BagOfSeq(s) == [x \in Range(s) |-> Cardinality({k \in 1..Len(s) : s[k] = x})]
IsPermutation(a, b) == Len(a) = Len(b) /\ BagOfSeq(a) = BagOfSeq(b)
NoDuplicates(s) == Cardinality(Range(s)) = Len(s)

N == Len(lines)
Created == DOMAIN persisted
CeilDiv(a, b) == (a + b - 1) \div b
\* input lines k*C .. min((k+1)*C, N) - 1, counted from 0
Block(k) ==
    SubSeq(lines, k * chunk_size + 1,
           IF (k + 1) * chunk_size < N THEN (k + 1) * chunk_size ELSE N)
Succeeded == message = "finished"
SplitReturned == pc \in {"shuffle_list", "open_output", "merge"} \/ Succeeded
Ended == pc \in {"finished", "exited"}

\* C1 -- Conservation: after a successful run the multiset of lines
\* merge_chunks wrote to the output equals the multiset of lines
\* split_into_chunks read from the input.
C1_Conservation ==
    Succeeded => BagOfSeq(out_lines) = BagOfSeq(lines)

\* C2 -- Exhaustiveness of merge: the handles in the registry and the handles
\* written are disjoint, neither holds a handle twice, together they are all
\* created handles; the registry is empty exactly when every created handle
\* has been written, and it is empty when merge_chunks has returned.
C2_Exhaustive ==
    /\ Range(chunk_files) \cap Range(written) = {}
    /\ Range(chunk_files) \cup Range(written) = Created
    /\ NoDuplicates(chunk_files)
    /\ NoDuplicates(written)
    /\ (chunk_files = <<>>) <=> (Range(written) = Created)
    /\ Succeeded => chunk_files = <<>> /\ Len(written) = Cardinality(Created)

C2_Witness ==
    /\ pc = "merge"
    /\ Len(written) >= 1
    /\ Len(chunk_files) >= 2

\* C3 -- No chunk bleed: as long as no write has failed, the output is the
\* concatenation, in merge order, of whole chunks, each with its lines in the
\* order in which the Chunker persisted them.
C3_NoChunkBleed ==
    (pc \in {"merge", "finished", "exited"} /\ exc = "none") =>
        outfile.content =
            WriteLines([k \in 1..Len(written) |->
                           WriteLines(persisted[written[k]])])

C3_Witness ==
    /\ Succeeded
    /\ Len(written) >= 2
    /\ written[1] > written[2]
    /\ \E h \in Created : Len(persisted[h]) >= 2 /\ persisted[h] # Block(h)

\* C4 -- Full-line-count chunking: split_into_chunks returns ceil(N / C)
\* handles, numbered 0 .. ceil(N / C) - 1; every chunk but the last created
\* holds C lines and the last holds between 1 and C.
C4_ChunkCount ==
    SplitReturned =>
        /\ Created = 0..(CeilDiv(N, chunk_size) - 1)
        /\ Len(chunk_files) + Len(written) = CeilDiv(N, chunk_size)
        /\ \A h \in Created :
              IF h < CeilDiv(N, chunk_size) - 1
              THEN Len(persisted[h]) = chunk_size
              ELSE Len(persisted[h]) \in 1..chunk_size

C4_Witness ==
    /\ pc = "shuffle_list"
    /\ Len(chunk_files) >= 2
    /\ N % chunk_size # 0
    /\ chunk_size >= 2

\* every chunk persisted so far is a permutation of its own block of the
\* input, and while the loop runs the buffer holds exactly the lines read
\* since the last chunk was persisted
ChunksArePermutations ==
    /\ \A h \in Created : IsPermutation(persisted[h], Block(h))
    /\ pc = "split" => chunk = SubSeq(lines, i - (i % chunk_size) + 1, i)

\* C5 (as claimed) -- In-chunk permutation validity, with the buffer empty
\* again after each chunk is persisted: after a chunk written in the loop,
\* and after the last one written when the input is exhausted.
C5_BufferEmptyAfterEachChunk ==
    /\ ChunksArePermutations
    /\ (pc = "split" /\ i % chunk_size = 0) => chunk = <<>>
    /\ pc = "shuffle_list" => chunk = <<>>

\* C5 (amended) -- every chunk is a permutation of its own block; the buffer
\* is empty again after each full chunk persisted in the loop, and after the
\* last, partial chunk it still holds that chunk's lines as persisted.
C5_PermutationValidity ==
    /\ ChunksArePermutations
    /\ (pc = "split" /\ i % chunk_size = 0) => chunk = <<>>
    /\ pc = "shuffle_list" =>
          IF N % chunk_size = 0
          THEN chunk = <<>>
          ELSE chunk = persisted[CeilDiv(N, chunk_size) - 1]

C5_Witness ==
    /\ pc = "shuffle_list"
    /\ Len(chunk_files) >= 2
    /\ chunk # <<>>
    /\ \E h \in Created : persisted[h] # Block(h)

\* C6 -- Cleanup guarantee: once shuffle_large_file has ended, on whatever
\* path, the temporary directory is released and holds no chunk file.
C6_Cleanup ==
    Ended => temp_dir = "released" /\ DOMAIN files = {}

C6_Witness ==
    /\ pc = "exited"
    /\ message = "error"
    /\ Created # {}
    /\ written # <<>>

\* C7 -- Missing input: with no input file the run ends with the
\* missing-input message and status 1, no chunk is ever created, merge is
\* never entered and the output file stays as it was; status 0 is reached
\* only by a run that succeeded.
C7_MissingInput ==
    /\ ~input_exists =>
          /\ Created = {}
          /\ DOMAIN files = {}
          /\ pc \notin {"split", "shuffle_list", "open_output", "merge"}
          /\ outfile = out_pre
          /\ Ended => message = "missing_input" /\ status = 1
    /\ status = 0 => Succeeded /\ exc = "none" /\ chunk_files = <<>>

C7_Witness ==
    /\ ~input_exists
    /\ pc = "exited"
    /\ out_pre.exists

\* C8 -- Per-line preservation: after a successful run the line records of
\* the output are, as a multiset, the line records of the input, and there
\* are as many of them as input lines.
C8_LineRecords ==
    Succeeded =>
        /\ BagOfSeq(ReadLines(outfile.content)) = BagOfSeq(ReadLines(input))
        /\ Len(ReadLines(outfile.content)) = N

\* until the directory is torn down, every registered handle names a chunk
\* file that is complete
RegisteredAreComplete ==
    temp_dir = "acquired" =>
        \A h \in Range(chunk_files) :
            h \in DOMAIN files /\ files[h] = WriteLines(persisted[h])

\* C9 (as claimed) -- Chunk lifecycle: chunks are complete before they are
\* registered, and once merge_chunks has removed a handle the chunk file is
\* gone from temporary storage, before the directory is torn down.
C9_DeletedDuringMerge ==
    /\ RegisteredAreComplete
    /\ temp_dir = "acquired" => \A h \in Range(written) : h \notin DOMAIN files

\* C9 (amended) -- chunks are complete before they are registered; a chunk
\* whose handle merge_chunks has removed stays in temporary storage,
\* unchanged, until the directory is torn down, and is gone after that.
C9_KeptUntilTeardown ==
    /\ RegisteredAreComplete
    /\ temp_dir = "acquired" =>
          \A h \in Range(written) :
              h \in DOMAIN files /\ files[h] = WriteLines(persisted[h])
    /\ temp_dir = "released" => DOMAIN files = {}

C9_Witness ==
    /\ pc = "merge"
    /\ temp_dir = "acquired"
    /\ written # <<>>
    /\ chunk_files # <<>>

\* C10 -- Status reporting: the count a status report prints is the number
\* of handles in the chunk registry at the moment of the report.
C10_StatusCount ==
    reports.printed = reports.registry

====
